---- MODULE Spec2Model ----
(***************************************************************************)
(* WebSocket-to-TCP mining proxy (ananta512/renanta).                      *)
(*                                                                         *)
(* Two variants of the same program are modelled:                          *)
(*   "reseg"  src/unnamed/part_000  backend data re-segmented at '\n'      *)
(*   "raw"    src/server.js         backend chunks forwarded as they come  *)
(*                                                                         *)
(* Byte strings are sequences of 0..255; JavaScript strings are sequences  *)
(* of code points.  One action is one callback of the Node event loop.     *)
(***************************************************************************)
EXTENDS Integers, Sequences, FiniteSets, TLC

VARIABLES variant, proc, sess, budget

vars == <<variant, proc, sess, budget>>

---------------------------------------------------------------------------
(* Program constants *)

LF == 10
Colon == 58
Slash == 47
Pad == 61
Replacement == 65533
PolicyViolation == 1008
NoStatus == 1005
MaxPort == 65535

---------------------------------------------------------------------------
(* Bounds of the model *)

\* the least relaying a session does: bytes from the backend, messages from
\* the client, bytes in a message
MinStream == 1
MinMsgs == 1
MinMsgLen == 0
\* SpecLife: one session, little data
TinyStream == 1
TinyMsgs == 1
TinyMsgLen == 1
\* SpecIn: backend bytes received by one session
MaxStream == 3
\* SpecRaw: backend bytes received by one session of server.js
RawStream == 2
\* SpecFrame: one client message, with room for two delimiters
FrameMsgs == 1
FrameMsgLen == 2
\* SpecOrder: a sequence of short client messages
OrderMsgs == 2
OrderMsgLen == 1

Sessions == {1, 2}

Variants == {"reseg", "raw"}

\* bytes a backend chunk is made of: '\n', 'a', and the two bytes of "é"
BackendBytes == {LF, 97, 195, 169}

\* bytes a client message is made of
ClientBytes == {LF, 97}

---------------------------------------------------------------------------
(* Sequences *)

Last(s) == s[Len(s)]

Front(s) == SubSeq(s, 1, Len(s) - 1)

SeqsUpTo(S, n) == UNION {[1..k -> S] : k \in 0..n}

---------------------------------------------------------------------------
(* String.prototype.split(sep) for a one-character separator: n separators *)
(* give n + 1 pieces, empty pieces kept.                                   *)

RECURSIVE Split(_, _)
Split(s, d) ==
  IF \A i \in 1..Len(s) : s[i] # d
  THEN <<s>>
  ELSE LET k == CHOOSE i \in 1..Len(s) :
                  s[i] = d /\ \A j \in 1..(i - 1) : s[j] # d
       IN  <<SubSeq(s, 1, k - 1)>> \o Split(SubSeq(s, k + 1, Len(s)), d)

---------------------------------------------------------------------------
(* Buffer.prototype.toString('utf8'): one- and two-byte sequences are      *)
(* decoded, every other byte becomes U+FFFD.  (Lead bytes of three- and    *)
(* four-byte sequences are outside the byte alphabets used here.)          *)

RECURSIVE Utf8Decode(_)
Utf8Decode(b) ==
  IF b = <<>> THEN <<>>
  ELSE IF b[1] < 128 THEN <<b[1]>> \o Utf8Decode(Tail(b))
  ELSE IF /\ b[1] >= 194 /\ b[1] <= 223
          /\ Len(b) >= 2
          /\ b[2] >= 128 /\ b[2] <= 191
       THEN <<(b[1] - 192) * 64 + (b[2] - 128)>> \o Utf8Decode(SubSeq(b, 3, Len(b)))
  ELSE <<Replacement>> \o Utf8Decode(Tail(b))

(* The bytes of a string, as ws.send(string) puts them in a TEXT frame and *)
(* as Buffer.from(string) yields them.                                     *)
RECURSIVE Utf8Encode(_)
Utf8Encode(s) ==
  IF s = <<>> THEN <<>>
  ELSE LET c == s[1] IN
       (IF c < 128 THEN <<c>>
        ELSE IF c < 2048 THEN <<192 + (c \div 64), 128 + (c % 64)>>
        ELSE <<224 + (c \div 4096), 128 + ((c \div 64) % 64), 128 + (c % 64)>>)
       \o Utf8Encode(Tail(s))

---------------------------------------------------------------------------
(* base64: btoa on the miner's side, Buffer.from(path, 'base64') on the    *)
(* proxy's side.                                                           *)

B64Char(v) ==
  IF v < 26 THEN 65 + v
  ELSE IF v < 52 THEN 71 + v
  ELSE IF v < 62 THEN v - 4
  ELSE IF v = 62 THEN 43
  ELSE 47

RECURSIVE Base64Encode(_)
Base64Encode(b) ==
  IF b = <<>> THEN <<>>
  ELSE IF Len(b) = 1
       THEN <<B64Char(b[1] \div 4), B64Char((b[1] % 4) * 16), Pad, Pad>>
  ELSE IF Len(b) = 2
       THEN <<B64Char(b[1] \div 4),
              B64Char((b[1] % 4) * 16 + (b[2] \div 16)),
              B64Char((b[2] % 16) * 4), Pad>>
  ELSE <<B64Char(b[1] \div 4),
         B64Char((b[1] % 4) * 16 + (b[2] \div 16)),
         B64Char((b[2] % 16) * 4 + (b[3] \div 64)),
         B64Char(b[3] % 64)>> \o Base64Encode(SubSeq(b, 4, Len(b)))

\* the value of a base64 (or base64url) character, 64 for any other character
B64Value(c) ==
  IF c >= 65 /\ c <= 90 THEN c - 65
  ELSE IF c >= 97 /\ c <= 122 THEN c - 71
  ELSE IF c >= 48 /\ c <= 57 THEN c + 4
  ELSE IF c \in {43, 45} THEN 62
  ELSE IF c \in {47, 95} THEN 63
  ELSE 64

\* the decoder never throws: it skips what is not in the alphabet and stops at '='
RECURSIVE Sextets(_)
Sextets(cs) ==
  IF cs = <<>> \/ cs[1] = Pad THEN <<>>
  ELSE IF B64Value(cs[1]) = 64 THEN Sextets(Tail(cs))
  ELSE <<B64Value(cs[1])>> \o Sextets(Tail(cs))

RECURSIVE SextetsToBytes(_)
SextetsToBytes(x) ==
  IF Len(x) >= 4
  THEN <<x[1] * 4 + (x[2] \div 16),
         (x[2] % 16) * 16 + (x[3] \div 4),
         (x[3] % 4) * 64 + x[4]>> \o SextetsToBytes(SubSeq(x, 5, Len(x)))
  ELSE IF Len(x) = 3
       THEN <<x[1] * 4 + (x[2] \div 16), (x[2] % 16) * 16 + (x[3] \div 4)>>
  ELSE IF Len(x) = 2 THEN <<x[1] * 4 + (x[2] \div 16)>>
  ELSE <<>>

Base64Decode(cs) == SextetsToBytes(Sextets(cs))

---------------------------------------------------------------------------
(* Number(portStr): the decimal literals that can be written with the      *)
(* characters of Targets (digits and a sign); anything else is NaN.        *)

NaN == [nan |-> TRUE, val |-> 0]

Num(v) == [nan |-> FALSE, val |-> v]

AllDigits(s) == s # <<>> /\ \A i \in 1..Len(s) : s[i] >= 48 /\ s[i] <= 57

RECURSIVE DecimalValue(_)
DecimalValue(s) ==
  IF s = <<>> THEN 0 ELSE DecimalValue(Front(s)) * 10 + (Last(s) - 48)

ToNumber(s) ==
  IF s = <<>> THEN Num(0)
  ELSE IF AllDigits(s) THEN Num(DecimalValue(s))
  ELSE IF s[1] = 45 /\ AllDigits(Tail(s)) THEN Num(0 - DecimalValue(Tail(s)))
  ELSE IF s[1] = 43 /\ AllDigits(Tail(s)) THEN Num(DecimalValue(Tail(s)))
  ELSE NaN

\* !port
Falsy(n) == n.nan \/ n.val = 0

---------------------------------------------------------------------------
(* The decode of the connection handler *)

\* req.url?.replace('/', '') || '' : the first '/' is removed
UrlPath(url) ==
  IF \A i \in 1..Len(url) : url[i] # Slash THEN url
  ELSE LET k == CHOOSE i \in 1..Len(url) :
                  url[i] = Slash /\ \A j \in 1..(i - 1) : url[j] # Slash
       IN  SubSeq(url, 1, k - 1) \o SubSeq(url, k + 1, Len(url))

\* Buffer.from(path, 'base64').toString('utf8')
Decoded(url) == Utf8Decode(Base64Decode(UrlPath(url)))

\* const [host, portStr] = decoded.split(':')
HostOf(url) == Split(Decoded(url), Colon)[1]

\* Number(portStr); portStr is undefined when there is no ':'
PortOf(url) ==
  LET parts == Split(Decoded(url), Colon)
  IN  IF Len(parts) >= 2 THEN ToNumber(parts[2]) ELSE NaN

\* if (!host || !port)
Rejects(url) == HostOf(url) = <<>> \/ Falsy(PortOf(url))

\* net.connect({host, port}) throws ERR_SOCKET_BAD_PORT on a port outside 0..65535
ConnectThrows(url) ==
  ~Rejects(url) /\ (PortOf(url).val < 0 \/ PortOf(url).val > MaxPort)

---------------------------------------------------------------------------
(* What a miner may put in the URL: "h:8" is the one well-formed target    *)

ValidTarget == <<104, 58, 56>>

Targets ==
  { ValidTarget,
    <<>>,                           \* ""
    <<104>>,                        \* "h"
    <<104, 58>>,                    \* "h:"
    <<58, 56>>,                     \* ":8"
    <<104, 58, 48>>,                \* "h:0"
    <<104, 58, 104>>,               \* "h:h"
    <<104, 58, 45, 56>>,            \* "h:-8"
    <<104, 58, 56, 58, 56>> }       \* "h:8:8"

\* const wsUrl = `wss://proxy.example.com/${btoa(target)}`
UrlOf(target) == <<Slash>> \o Base64Encode(Utf8Encode(target))

\* the last one has a character outside the base64 alphabet ('!') in it
Urls == {UrlOf(t) : t \in Targets} \cup {<<Slash, 33>> \o Base64Encode(ValidTarget)}

\* targets with a non-empty host and a positive integer port: hosts "h", "h.i"
\* and "é", ports "8", "80", "65535" and "65536"
Hosts == {<<104>>, <<104, 46, 105>>, <<233>>}

Ports == {<<56>>, <<56, 48>>, <<54, 53, 53, 51, 53>>, <<54, 53, 53, 51, 54>>}

ValidTargets == {h \o <<Colon>> \o p : h \in Hosts, p \in Ports}

---------------------------------------------------------------------------
(* One accepted client connection and what its closures hold *)

NoSession ==
  [ url       |-> <<>>,      \* req.url
    host      |-> <<>>,      \* the decoded Destination
    port      |-> 0,
    ws        |-> "NONE",    \* ws.readyState: OPEN, CLOSING, CLOSED
    code      |-> 0,         \* the status code of the close the proxy asked for
    peerDone  |-> FALSE,     \* the client sends no more frames
    wsErr     |-> FALSE,     \* ws 'error' was emitted
    wired     |-> FALSE,     \* the listeners of the handler are attached
    tcp       |-> "NONE",    \* connecting, connected, ended, destroyed
    attempts  |-> 0,         \* calls of net.connect
    opened    |-> FALSE,     \* history: the connect callback has run
    closeP    |-> FALSE,     \* tcp 'close' is still to be emitted
    ka        |-> FALSE,     \* the keep-alive interval is set
    rest      |-> <<>>,      \* the residual tail (a string)
    stream    |-> <<>>,      \* history: the bytes the backend has delivered
    ended     |-> FALSE,     \* history: tcp 'end' was handled
    emitted   |-> <<>>,      \* history: what was emitted toward the client
    recv      |-> <<>>,      \* history: the client messages received
    writes    |-> <<>>,      \* history: what tcp.write was called with
    lateWrite |-> FALSE,     \* history: tcp.write was called on a destroyed socket
    pings     |-> {},        \* history: ws.readyState at the calls of ws.ping
    destroys  |-> 0 ]        \* history: calls of tcp.destroy, one per run of closeAll

\* the process is gone: the operating system closes its sockets, its timers die
Killed(x) ==
  IF x.ws = "NONE" THEN x
  ELSE [x EXCEPT !.ws = "CLOSED",
                 !.tcp = IF @ = "NONE" THEN "NONE" ELSE "destroyed",
                 !.closeP = FALSE,
                 !.ka = FALSE]

\* wss.on('connection', (ws, req) => { ... }) up to a throw of net.connect
OnConnection(url) ==
  LET x == [NoSession EXCEPT !.url = url, !.ws = "OPEN"] IN
  IF Rejects(url)
  THEN [x EXCEPT !.ws = "CLOSING", !.code = PolicyViolation]
  ELSE IF ConnectThrows(url)
  THEN [x EXCEPT !.host = HostOf(url), !.port = PortOf(url).val, !.attempts = 1]
  ELSE [x EXCEPT !.host = HostOf(url), !.port = PortOf(url).val, !.attempts = 1,
                 !.tcp = "connecting", !.wired = TRUE, !.ka = TRUE]

---------------------------------------------------------------------------
(* The calls the handlers make on the two connection handles *)

\* a faulty variant: a socket whose connect is pending is left to connect
TcpDestroyUnlessConnecting(x) ==
  IF x.tcp = "connecting" THEN x
  ELSE [x EXCEPT !.destroys = @ + 1,
                 !.tcp = "destroyed",
                 !.closeP = (x.tcp # "destroyed") \/ x.closeP]

\* tcp.destroy(): a destroyed socket stays destroyed; 'close' follows a destroy
TcpDestroy(x) ==
  [x EXCEPT !.destroys = @ + 1,
            !.tcp = "destroyed",
            !.closeP = (x.tcp # "destroyed") \/ x.closeP]

\* a faulty variant: closeAll leaves the client connection alone
WsCloseNever(x) == x

\* if (ws.readyState === WebSocket.OPEN) ws.close()
WsCloseIfOpen(x) ==
  IF x.ws = "OPEN"
  THEN [x EXCEPT !.ws = "CLOSING", !.code = NoStatus]
  ELSE x

\* a faulty variant: closeAll sends the tail before it tears the session down
CloseAllFlush(x) ==
  WsCloseIfOpen(TcpDestroy(
    IF x.rest # <<>>
    THEN [x EXCEPT !.emitted = Append(@, [data |-> Utf8Encode(x.rest),
                                          sent |-> x.ws = "OPEN"])]
    ELSE x))

\* a faulty variant: closeAll closes the client connection only
CloseAllClientOnly(x) == WsCloseIfOpen(x)

\* closeAll (part_000) / shutdown (server.js)
CloseAll(x) == WsCloseIfOpen(TcpDestroy(x))

\* a faulty variant: the interval is never cleared
StopProbeNever(x) == x

\* ws.on('close', () => clearInterval(ka))
StopProbe(x) == [x EXCEPT !.ka = FALSE]

\* ws.ping() of the interval; on a socket that is not OPEN ws sends nothing
Probe(x) == [x EXCEPT !.pings = @ \cup {x.ws}]

\* if (ws.readyState === WebSocket.OPEN) ws.send(m): a TEXT frame for a string;
\* what is not sent is recorded as discarded
SendText(x, m) ==
  [x EXCEPT !.emitted = Append(@, [data |-> Utf8Encode(m), sent |-> x.ws = "OPEN"])]

\* msgs.forEach(m => { if (!m) return; ... ws.send(m) })
RECURSIVE SendEach(_, _)
SendEach(x, msgs) ==
  IF msgs = <<>> THEN x
  ELSE IF Head(msgs) = <<>> THEN SendEach(x, Tail(msgs))
  ELSE SendEach(SendText(x, Head(msgs)), Tail(msgs))

\* tcp.on('data') of part_000
OnDataReseg(x, chunk) ==
  LET str  == x.rest \o Utf8Decode(chunk)
      msgs == Split(str, LF)
  IN  SendEach([x EXCEPT !.rest = Last(msgs)], Front(msgs))

\* a faulty variant: the chunk is sent whatever the state of the client connection
OnDataRawAlways(x, chunk) ==
  [x EXCEPT !.emitted = Append(@, [data |-> chunk, sent |-> TRUE])]

\* tcp.on('data') of server.js: the chunk goes out as it came, in a binary frame
OnDataRaw(x, chunk) ==
  IF x.ws = "OPEN"
  THEN [x EXCEPT !.emitted = Append(@, [data |-> chunk, sent |-> TRUE])]
  ELSE x

\* tcp.on('end') of part_000: if (rest && ws.readyState === OPEN) ws.send(rest);
\* rest is left as it was
OnEndReseg(x) == IF x.rest # <<>> THEN SendText(x, x.rest) ELSE x

\* a faulty variant: an empty message is written as it is, with no newline
FrameNonEmpty(buf) ==
  IF buf = <<>> \/ Last(buf) = LF THEN buf ELSE buf \o <<LF>>

\* a faulty variant: the newline is appended whatever the last byte is
FrameAlways(buf) == buf \o <<LF>>

\* buf.slice(-1)[0] === 0x0a ? buf : Buffer.concat([buf, Buffer.from('\n')])
Frame(buf) ==
  IF buf # <<>> /\ Last(buf) = LF THEN buf ELSE buf \o <<LF>>

\* tcp.write(out): queued while connecting, discarded by a destroyed socket
TcpWrite(x, out) ==
  [x EXCEPT !.writes = Append(@, out),
            !.lateWrite = @ \/ x.tcp = "destroyed"]

\* a faulty variant: an empty message is skipped, as the other direction skips empty lines
OnMessageSkipEmpty(x, m) ==
  IF m = <<>> THEN [x EXCEPT !.recv = Append(@, m)]
  ELSE TcpWrite([x EXCEPT !.recv = Append(@, m)], Frame(m))

\* ws.on('message')
OnMessage(x, m) == TcpWrite([x EXCEPT !.recv = Append(@, m)], Frame(m))

---------------------------------------------------------------------------
(* The backend sends UTF-8 text: what it has sent so far is a prefix of a  *)
(* well-formed text, cut anywhere, and it ends at a character boundary.    *)

Utf8Complete(b) ==
  \A i \in 1..Len(Utf8Decode(b)) : Utf8Decode(b)[i] # Replacement

IsUtf8Prefix(b) ==
  \/ Utf8Complete(b)
  \/ b # <<>> /\ Last(b) >= 194 /\ Last(b) <= 223 /\ Utf8Complete(Front(b))

---------------------------------------------------------------------------
(* Actions *)

Accepted == {s \in Sessions : sess[s].ws # "NONE"}

\* the top level of the module is evaluated; server.js reaches `tcp.on(...)`
\* at its line 87 with no `tcp` in scope, a ReferenceError nobody catches
Startup ==
  /\ proc = "loading"
  /\ proc' = IF variant = "raw" THEN "crashed" ELSE "running"
  /\ UNCHANGED <<variant, sess, budget>>

\* a client connects with `url`; sessions are numbered in the order they arrive
Connection(s, url) ==
  /\ proc = "running"
  /\ Cardinality(Accepted) < budget.conns
  /\ s = Cardinality(Accepted) + 1
  /\ IF ConnectThrows(url)
     THEN /\ proc' = "crashed"
          /\ sess' = [t \in Sessions |->
                        Killed(IF t = s THEN OnConnection(url) ELSE sess[t])]
     ELSE /\ proc' = proc
          /\ sess' = [sess EXCEPT ![s] = OnConnection(url)]
  /\ UNCHANGED <<variant, budget>>

\* net.connect's callback: it only logs
TcpConnect(s) ==
  /\ proc = "running"
  /\ sess[s].tcp = "connecting"
  /\ sess' = [sess EXCEPT ![s].tcp = "connected", ![s].opened = TRUE]
  /\ UNCHANGED <<variant, proc, budget>>

\* tcp 'data'
TcpData(s, chunk) ==
  /\ proc = "running"
  /\ sess[s].tcp = "connected"
  /\ chunk # <<>>
  /\ Len(sess[s].stream) + Len(chunk) <= budget.stream[s]
  /\ IsUtf8Prefix(sess[s].stream \o chunk)
  /\ LET x == [sess[s] EXCEPT !.stream = @ \o chunk]
     IN  sess' = [sess EXCEPT ![s] = IF variant = "reseg" THEN OnDataReseg(x, chunk)
                                     ELSE OnDataRaw(x, chunk)]
  /\ UNCHANGED <<variant, proc, budget>>

\* tcp 'end': the backend sent FIN; allowHalfOpen is off, so the socket ends
\* its own side and 'close' follows
TcpEnd(s) ==
  /\ proc = "running"
  /\ sess[s].tcp = "connected"
  /\ Utf8Complete(sess[s].stream)
  /\ LET x == [sess[s] EXCEPT !.tcp = "ended", !.closeP = TRUE, !.ended = TRUE]
     IN  sess' = [sess EXCEPT ![s] = IF variant = "reseg" THEN OnEndReseg(x) ELSE x]
  /\ UNCHANGED <<variant, proc, budget>>

\* tcp 'error' (connect refused, reset, ...): Node has destroyed the socket
\* when it emits the event
TcpError(s) ==
  /\ proc = "running"
  /\ sess[s].tcp \in {"connecting", "connected", "ended"}
  /\ sess' = [sess EXCEPT ![s] =
                CloseAll([sess[s] EXCEPT !.tcp = "destroyed", !.closeP = TRUE])]
  /\ UNCHANGED <<variant, proc, budget>>

\* tcp 'close'
TcpClose(s) ==
  /\ proc = "running"
  /\ sess[s].closeP
  /\ sess' = [sess EXCEPT ![s] =
                CloseAll([sess[s] EXCEPT !.tcp = "destroyed", !.closeP = FALSE])]
  /\ UNCHANGED <<variant, proc, budget>>

\* ws 'message'; a write on a socket the backend has ended fails with EPIPE,
\* Node destroys the socket and emits 'error' in the next tick
WsMessage(s, m) ==
  /\ proc = "running"
  /\ sess[s].wired
  /\ sess[s].ws \in {"OPEN", "CLOSING"}
  /\ ~sess[s].peerDone
  /\ Len(sess[s].recv) < budget.msgs[s]
  /\ Len(m) <= budget.msgLen
  /\ LET x == OnMessage(sess[s], m)
     IN  sess' = [sess EXCEPT ![s] =
                    IF sess[s].tcp = "ended"
                    THEN CloseAll([x EXCEPT !.tcp = "destroyed", !.closeP = TRUE])
                    ELSE x]
  /\ UNCHANGED <<variant, proc, budget>>

\* the client's close frame arrives: readyState is CLOSING until the socket
\* is closed; no listener runs
WsCloseFrame(s) ==
  /\ proc = "running"
  /\ sess[s].ws = "OPEN"
  /\ sess' = [sess EXCEPT ![s].ws = "CLOSING", ![s].peerDone = TRUE]
  /\ UNCHANGED <<variant, proc, budget>>

\* ws 'error': readyState is CLOSING when the event is emitted
WsError(s) ==
  /\ proc = "running"
  /\ sess[s].wired
  /\ sess[s].ws \in {"OPEN", "CLOSING"}
  /\ ~sess[s].wsErr
  /\ sess' = [sess EXCEPT ![s] =
                CloseAll([sess[s] EXCEPT !.ws = "CLOSING", !.peerDone = TRUE,
                                         !.wsErr = TRUE])]
  /\ UNCHANGED <<variant, proc, budget>>

\* ws 'close': readyState is CLOSED; the two listeners run in the order they
\* were attached
WsClose(s) ==
  /\ proc = "running"
  /\ sess[s].ws \in {"OPEN", "CLOSING"}
  /\ LET x == [sess[s] EXCEPT !.ws = "CLOSED", !.peerDone = TRUE]
     IN  sess' = [sess EXCEPT ![s] = IF x.wired THEN StopProbe(CloseAll(x)) ELSE x]
  /\ UNCHANGED <<variant, proc, budget>>

\* the keep-alive interval fires
Ping(s) ==
  /\ proc = "running"
  /\ sess[s].ka
  /\ sess' = [sess EXCEPT ![s] = Probe(sess[s])]
  /\ UNCHANGED <<variant, proc, budget>>

SessionEvent(s) ==
  \/ \E url \in budget.urls : Connection(s, url)
  \/ TcpConnect(s)
  \/ \E chunk \in SeqsUpTo(BackendBytes, budget.stream[s]) : TcpData(s, chunk)
  \/ TcpEnd(s)
  \/ TcpError(s)
  \/ TcpClose(s)
  \/ \E m \in SeqsUpTo(ClientBytes, budget.msgLen) : WsMessage(s, m)
  \/ WsCloseFrame(s)
  \/ WsError(s)
  \/ WsClose(s)
  \/ Ping(s)

Next == Startup \/ \E s \in Sessions : SessionEvent(s)

---------------------------------------------------------------------------
(* Specifications: the same program under different input budgets *)

Boot(b) ==
  /\ variant \in Variants
  /\ proc = "loading"
  /\ sess = [s \in Sessions |-> NoSession]
  /\ budget = b

\* every session gets the same share
Even(n) == [s \in Sessions |-> n]

\* the first session gets it all
First(n) == [s \in Sessions |-> IF s = 1 THEN n ELSE 0]

\* a well-formed URL, one the handler rejects, one net.connect throws on
FewUrls == {UrlOf(ValidTarget), UrlOf(<<104>>), UrlOf(<<104, 58, 45, 56>>)}

\* two sessions side by side, the first one relaying
Init ==
  Boot([conns |-> 2, urls |-> FewUrls,
        stream |-> First(MinStream), msgs |-> First(MinMsgs), msgLen |-> MinMsgLen])

Spec == Init /\ [][Next]_vars

\* one session, every URL
InitAddr ==
  Boot([conns |-> 1, urls |-> Urls,
        stream |-> Even(MinStream), msgs |-> Even(MinMsgs), msgLen |-> MinMsgLen])

SpecAddr == InitAddr /\ [][Next]_vars

\* one session through its whole life, little data
InitLife ==
  Boot([conns |-> 1, urls |-> FewUrls,
        stream |-> Even(TinyStream), msgs |-> Even(TinyMsgs), msgLen |-> TinyMsgLen])

\* a close that is under way completes: the client answers the close frame or
\* ws gives up waiting and destroys the socket; a destroyed or ended TCP socket
\* emits 'close'
Fairness ==
  \A s \in Sessions :
    /\ WF_vars(WsClose(s) /\ sess[s].ws = "CLOSING")
    /\ WF_vars(TcpClose(s))

SpecLife == InitLife /\ [][Next]_vars /\ Fairness

\* one session, the backend-to-client direction
InitIn ==
  Boot([conns |-> 1, urls |-> {UrlOf(ValidTarget)},
        stream |-> Even(MaxStream), msgs |-> Even(MinMsgs), msgLen |-> MinMsgLen])

SpecIn == InitIn /\ [][Next]_vars

\* one session, the client-to-backend direction: what one message becomes
InitFrame ==
  Boot([conns |-> 1, urls |-> {UrlOf(ValidTarget)},
        stream |-> Even(MinStream), msgs |-> Even(FrameMsgs), msgLen |-> FrameMsgLen])

SpecFrame == InitFrame /\ [][Next]_vars

\* one session, the client-to-backend direction: a sequence of messages
InitOrder ==
  Boot([conns |-> 1, urls |-> {UrlOf(ValidTarget)},
        stream |-> Even(MinStream), msgs |-> Even(OrderMsgs), msgLen |-> OrderMsgLen])

SpecOrder == InitOrder /\ [][Next]_vars

\* one session, every target of ValidTargets
InitTrip ==
  Boot([conns |-> 1, urls |-> {UrlOf(t) : t \in ValidTargets},
        stream |-> Even(MinStream), msgs |-> Even(MinMsgs), msgLen |-> MinMsgLen])

SpecTrip == InitTrip /\ [][Next]_vars

\* the connection handler of server.js (its lines 38-85) at work for one
\* session: the process is taken as loaded and listening, that is, without the
\* statements that follow the handler in the file (see Startup)
InitRaw ==
  /\ variant = "raw"
  /\ proc = "running"
  /\ sess = [s \in Sessions |-> NoSession]
  /\ budget = [conns |-> 1, urls |-> {UrlOf(ValidTarget)},
               stream |-> Even(RawStream), msgs |-> Even(MinMsgs), msgLen |-> MinMsgLen]

Relay == \E s \in Sessions : SessionEvent(s)

SpecRaw == InitRaw /\ [][Relay]_vars

---------------------------------------------------------------------------
(* Vocabulary of the claims *)

\* both handles of an accepted session are released
Closed(x) == x.ws = "CLOSED" /\ x.tcp = "destroyed"

NonEmpty(m) == m # <<>>

RECURSIVE TrailingLFs(_)
TrailingLFs(b) ==
  IF b = <<>> \/ Last(b) # LF THEN 0 ELSE 1 + TrailingLFs(Front(b))

\* the messages a backend stream holds: its non-empty '\n'-bounded segments,
\* and, once the stream has ended, what follows the last '\n'
Expected(x) ==
  LET segs == Split(x.stream, LF)
  IN  SelectSeq(Front(segs), NonEmpty)
        \o (IF x.ended /\ Last(segs) # <<>> THEN <<Last(segs)>> ELSE <<>>)

\* a target "host:port" with a non-empty host and a positive decimal port
ValidHostPort(t) ==
  LET parts == Split(t, Colon)
  IN  /\ Len(parts) = 2
      /\ parts[1] # <<>>
      /\ AllDigits(parts[2])
      /\ DecimalValue(parts[2]) > 0
      /\ DecimalValue(parts[2]) <= MaxPort

WellFormedUrl(url) == \E t \in Targets : ValidHostPort(t) /\ url = UrlOf(t)

---------------------------------------------------------------------------
(* C1  Frame reassembly: what part_000 emits toward the client is exactly  *)
(* the non-empty '\n'-bounded segments of the bytes the backend has sent,  *)
(* in order and once each, plus the remainder at end-of-input; none holds  *)
(* a delimiter.  Stated as the claim states it; the code breaks it when a  *)
(* chunk boundary falls inside a multi-byte character.                     *)
C1_Reassembly ==
  \A s \in Sessions :
    variant = "reseg" /\ sess[s].wired =>
      /\ [i \in 1..Len(sess[s].emitted) |-> sess[s].emitted[i].data] = Expected(sess[s])
      /\ \A i \in 1..Len(sess[s].emitted) :
           \A j \in 1..Len(sess[s].emitted[i].data) : sess[s].emitted[i].data[j] # LF

(* C2  as the claim states it: every backend write ends with exactly one   *)
(* '\n'.                                                                    *)
C2_ExactlyOneDelimiter ==
  \A s \in Sessions :
    \A i \in 1..Len(sess[s].writes) : TrailingLFs(sess[s].writes[i]) = 1

(* C2  amended: every backend write ends with '\n'; it ends with exactly   *)
(* one unless the client message itself ended with two or more, and then   *)
(* the message is written unchanged.                                       *)
C2_DelimiterTerminated ==
  \A s \in Sessions :
    \A i \in 1..Len(sess[s].writes) :
      LET w == sess[s].writes[i]
          m == sess[s].recv[i]
      IN  /\ TrailingLFs(w) >= 1
          /\ TrailingLFs(m) <= 1 => TrailingLFs(w) = 1
          /\ TrailingLFs(m) >= 2 => w = m

\* a message that ends with one '\n' has been written as it came
C2_Witness ==
  \E s \in Sessions :
    \E i \in 1..Len(sess[s].writes) :
      /\ Len(sess[s].recv[i]) = 2
      /\ TrailingLFs(sess[s].recv[i]) = 1
      /\ sess[s].writes[i] = sess[s].recv[i]

(* C3  Teardown idempotence: over the life of a session the teardown       *)
(* sequence runs once; a later trigger issues no further destroy request.  *)
C3_OneTeardown == \A s \in Sessions : sess[s].destroys <= 1

(* C4  No write is issued to a destroyed backend connection and no probe   *)
(* to a released client connection.                                        *)
C4_NoUseAfterRelease ==
  \A s \in Sessions :
    /\ ~sess[s].lateWrite
    /\ "CLOSED" \notin sess[s].pings

(* C5  Address decoding gate: a connection whose URL is not the encoding   *)
(* of a well-formed host:port is closed with 1008 and net.connect is never *)
(* called for it.                                                          *)
C5_Gate ==
  \A s \in Sessions :
    sess[s].url # <<>> /\ ~WellFormedUrl(sess[s].url) =>
      sess[s].code = PolicyViolation /\ sess[s].attempts = 0

(* C6  Liveness probe after close: a session whose two handles are         *)
(* released has no keep-alive interval set, and no probe was ever fired on *)
(* a CLOSED client connection.                                             *)
C6_NoProbeAfterClosed ==
  \A s \in Sessions :
    /\ Closed(sess[s]) => ~sess[s].ka
    /\ "CLOSED" \notin sess[s].pings

\* a session that was probed while open is now closed, the process running
C6_Witness ==
  \E s \in Sessions :
    proc = "running" /\ sess[s].wired /\ Closed(sess[s]) /\ "OPEN" \in sess[s].pings

(* C7  Session independence: an event of one session leaves every other    *)
(* accepted session (its tail, handles, interval, histories) as it was.    *)
C7_Independence ==
  [][\A a \in Sessions :
       SessionEvent(a) =>
         \A b \in Sessions \ {a} : sess[b].wired => sess'[b] = sess[b]]_vars

(* C8  Crash containment: the process never dies of an uncaught error.     *)
C8_NoCrash == proc # "crashed"

(* C9  Eventual full teardown: once closeAll has run for a session, the    *)
(* session reaches the state in which the backend socket is destroyed, the *)
(* client connection is CLOSED and the interval is cleared.                *)
C9_EventualTeardown ==
  \A s \in Sessions :
    (sess[s].destroys >= 1) ~> (Closed(sess[s]) /\ ~sess[s].ka)

\* a teardown that the backend started has completed, the process running
C9_Witness ==
  \E s \in Sessions :
    proc = "running" /\ sess[s].destroys >= 2 /\ sess[s].code = NoStatus
      /\ Closed(sess[s]) /\ ~sess[s].ka

(* C10  Client-to-backend ordering: the calls of tcp.write are one per     *)
(* client message, in the order of the messages, each carrying its message *)
(* with at most the delimiter added.                                       *)
C10_Ordering ==
  \A s \in Sessions :
    /\ Len(sess[s].writes) = Len(sess[s].recv)
    /\ \A i \in 1..Len(sess[s].writes) :
         sess[s].writes[i] \in {sess[s].recv[i], sess[s].recv[i] \o <<LF>>}

\* two different messages, the second one empty, have been received
C10_Witness ==
  \E s \in Sessions :
    Len(sess[s].recv) = 2 /\ sess[s].recv[1] # <<>> /\ sess[s].recv[2] = <<>>

(* C11  Address round-trip: a connection whose URL is the encoding of a    *)
(* valid host:port (non-empty host, positive integer port) decodes to that *)
(* host and that port and is accepted with a backend connect to the pair.  *)
(* Stated as the claim states it; net.connect throws on a port above       *)
(* 65535.                                                                  *)
C11_RoundTrip ==
  \A s \in Sessions :
    \A t \in ValidTargets :
      sess[s].url = UrlOf(t) =>
        /\ HostOf(sess[s].url) = Split(t, Colon)[1]
        /\ PortOf(sess[s].url) = Num(DecimalValue(Split(t, Colon)[2]))
        /\ sess[s].host = Split(t, Colon)[1]
        /\ sess[s].port = DecimalValue(Split(t, Colon)[2])
        /\ sess[s].attempts = 1
        /\ sess[s].wired
        /\ sess[s].code # PolicyViolation

\* the bytes a step of the backend has added to the stream of a session
Arrived(x, y) == SubSeq(y.stream, Len(x.stream) + 1, Len(y.stream))

(* C12  Residual-tail invariant: the tail of the reassembler is empty      *)
(* before the first chunk and never holds a delimiter; after each chunk it *)
(* is the bytes that follow the last delimiter of (previous tail + chunk), *)
(* the whole of it when the chunk has no delimiter, and then nothing is    *)
(* emitted.  Stated as the claim states it; the tail is a decoded string   *)
(* and does not hold the bytes of a character the chunk boundary cut.      *)
C12_TailInvariant ==
  /\ [](\A s \in Sessions :
          /\ sess[s].stream = <<>> => sess[s].rest = <<>>
          /\ \A i \in 1..Len(sess[s].rest) : sess[s].rest[i] # LF)
  /\ [][\A s \in Sessions :
          variant = "reseg" /\ sess'[s].stream # sess[s].stream =>
            LET chunk == Arrived(sess[s], sess'[s])
                whole == Utf8Encode(sess[s].rest) \o chunk
            IN  /\ Utf8Encode(sess'[s].rest) = Last(Split(whole, LF))
                /\ (\A i \in 1..Len(chunk) : chunk[i] # LF) =>
                      /\ Utf8Encode(sess'[s].rest) = whole
                      /\ sess'[s].emitted = sess[s].emitted]_vars

(* C13  Synchronized teardown step: the handler of each of the four        *)
(* triggers (ws 'close', ws 'error', tcp 'close', tcp 'error') requests,   *)
(* in its own step, the destruction of the backend socket whatever its     *)
(* state, and the closure of the client connection if it is still open.    *)
C13_SameStep ==
  [][\A s \in Sessions :
       sess[s].wired /\ (WsClose(s) \/ WsError(s) \/ TcpClose(s) \/ TcpError(s)) =>
         /\ sess'[s].destroys = sess[s].destroys + 1
         /\ sess'[s].tcp = "destroyed"
         /\ sess'[s].ws # "OPEN"
         /\ sess[s].ws = "OPEN" /\ (TcpClose(s) \/ TcpError(s)) =>
               sess'[s].ws = "CLOSING" /\ sess'[s].code = NoStatus]_vars

\* the client's close notification was the first trigger of a session whose
\* backend socket was in use: the socket is destroyed, its 'close' still to come
C13_Witness ==
  \E s \in Sessions :
    /\ proc = "running" /\ sess[s].wired
    /\ sess[s].ws = "CLOSED" /\ sess[s].destroys = 1
    /\ sess[s].tcp = "destroyed" /\ sess[s].closeP

(* C14  Probe stopped by the teardown handler: once closeAll has run for a *)
(* session, whichever event triggered it, the keep-alive interval is       *)
(* cleared and ws.ping is not called again.  Stated as the claim states    *)
(* it; the interval is cleared by the second ws 'close' listener only.     *)
C14_ProbeStoppedByTeardown ==
  /\ [](\A s \in Sessions : sess[s].destroys >= 1 => ~sess[s].ka)
  /\ [][\A s \in Sessions : Ping(s) => sess[s].destroys = 0]_vars

(* C15  Probe only while active: the keep-alive interval is not set while  *)
(* the backend connect is pending, ws.ping is not called for a session     *)
(* that is still connecting, and a tick of the interval changes nothing on *)
(* the backend side (socket, tail, stream, writes).  Stated as the claim   *)
(* states it; the interval is set in the connection handler, before the    *)
(* connect resolves.                                                       *)
C15_ProbeOnlyWhileActive ==
  /\ [](\A s \in Sessions : sess[s].ka => sess[s].tcp # "connecting")
  /\ [][\A s \in Sessions :
          Ping(s) =>
            /\ sess[s].tcp # "connecting"
            /\ sess[s].opened
            /\ sess'[s].tcp = sess[s].tcp
            /\ sess'[s].rest = sess[s].rest
            /\ sess'[s].writes = sess[s].writes
            /\ sess'[s].stream = sess[s].stream]_vars

(* C16  Backend connect failure and early client close: when tcp 'error',  *)
(* ws 'close' or ws 'error' is handled while the connect is pending, the   *)
(* handler destroys the backend socket and leaves the client connection    *)
(* closed or closing, as for a later backend error; net.connect is called  *)
(* at most once for an accepted connection.                                *)
C16_ConnectFailure ==
  /\ [](\A s \in Sessions : sess[s].attempts <= 1)
  /\ [][\A s \in Sessions :
          sess[s].tcp = "connecting" /\ (TcpError(s) \/ WsClose(s) \/ WsError(s)) =>
            /\ sess'[s].tcp = "destroyed"
            /\ sess'[s].destroys = sess[s].destroys + 1
            /\ sess'[s].ws \in {"CLOSING", "CLOSED"}
            /\ sess'[s].attempts = 1
            /\ ~sess'[s].opened]_vars

\* a session whose connect failed while the client was open is closed
C16_Witness ==
  \E s \in Sessions :
    /\ proc = "running" /\ sess[s].wired /\ ~sess[s].opened
    /\ sess[s].code = NoStatus /\ Closed(sess[s]) /\ sess[s].attempts = 1

(* C17  End-of-input flush: tcp 'end' emits a non-empty tail as one final  *)
(* message and nothing for an empty tail; once 'end' has been handled the  *)
(* tail is empty and nothing more is emitted.  Stated as the claim states  *)
(* it; the handler does not clear the tail.                                *)
C17_EndFlush ==
  /\ [](\A s \in Sessions :
          variant = "reseg" /\ sess[s].ended => sess[s].rest = <<>>)
  /\ [][\A s \in Sessions :
          variant = "reseg" /\ TcpEnd(s) =>
            sess'[s].emitted =
              IF sess[s].rest # <<>>
              THEN Append(sess[s].emitted,
                          [data |-> Utf8Encode(sess[s].rest), sent |-> sess[s].ws = "OPEN"])
              ELSE sess[s].emitted]_vars
  /\ [][\A s \in Sessions :
          sess[s].ended => sess'[s].emitted = sess[s].emitted]_vars

(* C18  Outbound framer algorithm: the write made for a client message is  *)
(* the message itself when its last byte is '\n', the message followed by  *)
(* one '\n' otherwise, and the single byte '\n' for an empty message.      *)
C18_FramerAlgorithm ==
  \A s \in Sessions :
    /\ Len(sess[s].writes) = Len(sess[s].recv)
    /\ \A i \in 1..Len(sess[s].recv) :
         LET m == sess[s].recv[i]
             w == sess[s].writes[i]
         IN  /\ m = <<>> => w = <<LF>>
             /\ m # <<>> /\ m[Len(m)] = LF => w = m
             /\ m # <<>> /\ m[Len(m)] # LF =>
                   /\ Len(w) = Len(m) + 1
                   /\ SubSeq(w, 1, Len(m)) = m
                   /\ w[Len(w)] = LF

\* an empty message has been written as one delimiter byte
C18_Witness ==
  \E s \in Sessions :
    Len(sess[s].recv) = 1 /\ sess[s].recv[1] = <<>> /\ sess[s].writes[1] = <<LF>>

C20_TailLoss ==
  [][\A s \in Sessions :
       variant = "reseg" =>
         /\ sess'[s].emitted # sess[s].emitted =>
               sess'[s].stream # sess[s].stream \/ TcpEnd(s)
         /\ sess[s].tcp = "destroyed" /\ ~sess[s].ended =>
               /\ sess'[s].emitted = sess[s].emitted
               /\ sess'[s].rest = sess[s].rest
               /\ ~sess'[s].ended]_vars

\* a session torn down by the backend while its client was open has ended
\* with a tail it never delivered
C20_Witness ==
  \E s \in Sessions :
    /\ proc = "running" /\ variant = "reseg"
    /\ Closed(sess[s]) /\ sess[s].code = NoStatus
    /\ ~sess[s].ended /\ sess[s].rest = <<97>> /\ sess[s].emitted = <<>>

====
